---- MODULE Spec2Model ----
(***************************************************************************)
(* A model of gityping: the generator of type stubs from GObject          *)
(* introspection data (src/gityping/gityping.py, const.py, main.py).      *)
(*                                                                         *)
(* Text is modelled as a sequence of string tokens: a formatted string is  *)
(* the concatenation of the token sequences of its parts, so that a        *)
(* qualified reference 'module.Name' is the three tokens module, ".", Name.*)
(* A Python value that stands for a type annotation is a record [k, t]:    *)
(* k = "type" (a class object such as int, t its __name__), k = "None",    *)
(* k = "str" (a string, t its tokens), k = "exc" (a raised exception).     *)
(***************************************************************************)
EXTENDS Integers, Sequences, FiniteSets, TLC

VARIABLES
    current_stub_module,  \* gityping.py:100, the module global (None or a module)
    current_gi_imports,   \* gityping.py:101, the module global set of imports
    pc,                   \* position of the driver of the operation under study
    function,             \* the callable handed to format_functioninfo
    strip_bool_result,    \* its keyword argument
    signature,            \* format_functioninfo's local: make_signature's outcome
    fn_result,            \* what format_functioninfo returned or raised
    type_info,            \* the TypeInfo handed to get_typeinfo
    type_result,          \* what get_typeinfo returned or raised
    stub_class,           \* the class handed to generate_class_stubs
    stub_lines,           \* what generate_class_stubs returned or raised
    module_dict,          \* main.py:86, the modules main goes through
    main_i,               \* main.py:89, the index of the module main is at
    module_attrs,         \* gityping.py:604, the sorted names still to visit
    attr_stubs,           \* gityping.py:606, the stubs gathered so far
    stub,                 \* main.py:90, what generate_module_stub returned
    files,                \* main.py:28, the stub files written
    referenced            \* history: the modules format_module qualified
                          \* a name with during the run in progress

\* Under SpecPar, where two calls of generate_module_stub are interleaved,
\* pc, module_attrs, attr_stubs, stub and referenced are functions from the
\* call (1 or 2) to that call's own value; the two globals are shared.

sigvars ==
    <<function, strip_bool_result, signature, fn_result, type_info,
      type_result>>
clsvars == <<stub_class, stub_lines>>

modvars ==
    <<module_dict, main_i, module_attrs, attr_stubs, stub, files, referenced>>

vars == <<current_stub_module, current_gi_imports, pc, sigvars, clsvars,
          modvars>>

\* ------------------------------------------------------------------ bounds

\* the largest number of declared arguments of a callable
MaxArgs == 2

\* ------------------------------------------------------------------ values

NoValue == [k |-> "none"]

PyType(n) == [k |-> "type", t |-> <<n>>]
PyNone == [k |-> "None", t |-> <<>>]
PyStr(toks) == [k |-> "str", t |-> toks]
PyExc(name, msg) == [k |-> "exc", t |-> <<name, msg>>]

py_bool == PyType("bool")
py_int == PyType("int")
py_float == PyType("float")
py_str == PyType("str")
py_list == PyType("list")
py_dict == PyType("dict")
\* inspect.Parameter.empty, the class used as "no annotation"
py_empty == PyType("_empty")

typing_Any == PyStr(<<"typing", ".", "Any">>)

\* a call's outcome: the value returned or the exception raised, and the
\* module names the call added to current_gi_imports on the way
Ok(v, imps) == [raised |-> FALSE, val |-> v, imps |-> imps]
Raise(e, imps) == [raised |-> TRUE, val |-> e, imps |-> imps]

\* str.join
RECURSIVE Join(_, _)
Join(parts, sep) ==
    IF parts = <<>> THEN <<>>
    ELSE IF Len(parts) = 1 THEN parts[1]
    ELSE parts[1] \o sep \o Join(Tail(parts), sep)

\* str(value) as str.format applies it to an annotation value
Str(p) == IF p.k = "None" THEN <<"None">> ELSE p.t

\* [r for r in seq if keep(r)]
RECURSIVE SelectNotNone(_)
SelectNotNone(s) ==
    IF s = <<>> THEN <<>>
    ELSE IF Head(s) = PyNone THEN SelectNotNone(Tail(s))
    ELSE <<Head(s)>> \o SelectNotNone(Tail(s))

\* ------------------------------------------------------------------ names

\* The characters of the attribute, class and module names the inputs are
\* drawn from: str methods and sorted() are computed on them.
Chars ==
       "new" :> <<"n", "e", "w">>
    @@ "priv" :> <<"p", "r", "i", "v">>
    @@ "widget" :> <<"w", "i", "d", "g", "e", "t">>
    @@ "__init__" :> <<"_", "_", "i", "n", "i", "t", "_", "_">>
    @@ "a-b" :> <<"a", "-", "b">>
    @@ "x" :> <<"x">>
    @@ "both" :> <<"b", "o", "t", "h">>
    @@ "area" :> <<"a", "r", "e", "a">>
    @@ "bogus" :> <<"b", "o", "g", "u", "s">>
    @@ "MAX_VALUE" :> <<"M", "A", "X", "_", "V", "A", "L", "U", "E">>
    @@ "blue" :> <<"b", "l", "u", "e">>
    @@ "blue_float" :> <<"b", "l", "u", "e", "_", "f", "l", "o", "a", "t">>
    @@ "from_floats" :> <<"f", "r", "o", "m", "_", "f", "l", "o", "a", "t", "s">>
    @@ "A" :> <<"A">>
    @@ "B" :> <<"B">>
    @@ "b" :> <<"b">>
    @@ "LEVEL_MASK" :> <<"L", "E", "V", "E", "L", "_", "M", "A", "S", "K">>
    @@ "value" :> <<"v", "a", "l", "u", "e">>
    @@ "double" :> <<"d", "o", "u", "b", "l", "e">>
    @@ "f" :> <<"f">>
    @@ "Color" :> <<"C", "o", "l", "o", "r">>
    @@ "Widget" :> <<"W", "i", "d", "g", "e", "t">>
    @@ "WidgetClass" :> <<"W", "i", "d", "g", "e", "t", "C", "l", "a", "s", "s">>
    @@ "WidgetPrivate" :> <<"W", "i", "d", "g", "e", "t", "P", "r", "i", "v", "a", "t", "e">>
    @@ "Flags" :> <<"F", "l", "a", "g", "s">>
    @@ "TYPE_X" :> <<"T", "Y", "P", "E", "_", "X">>
    @@ "version" :> <<"v", "e", "r", "s", "i", "o", "n">>
    @@ "typing" :>
           <<"t", "y", "p", "i", "n", "g">>
    @@ "gi.repository.Gdk" :>
           <<"g", "i", ".", "r", "e", "p", "o", "s", "i", "t", "o", "r", "y", ".", "G", "d", "k">>
    @@ "gi.repository.Gtk" :>
           <<"g", "i", ".", "r", "e", "p", "o", "s", "i", "t", "o", "r", "y", ".", "G", "t", "k">>
    @@ "gi.repository.GObject" :>
           <<"g", "i", ".", "r", "e", "p", "o", "s", "i", "t", "o", "r", "y", ".", "G", "O", "b", "j", "e", "c", "t">>
    @@ "gi.repository.GLib" :>
           <<"g", "i", ".", "r", "e", "p", "o", "s", "i", "t", "o", "r", "y", ".", "G", "L", "i", "b">>

\* the characters in code point order: sorted() compares names by them
CodePoints ==
    <<"-", ".", "0", "1", "2", "3", "4", "5", "6", "7", "8", "9",
      "A", "B", "C", "D", "E", "F", "G", "H", "I", "J", "K", "L", "M",
      "N", "O", "P", "Q", "R", "S", "T", "U", "V", "W", "X", "Y", "Z",
      "_",
      "a", "b", "c", "d", "e", "f", "g", "h", "i", "j", "k", "l", "m",
      "n", "o", "p", "q", "r", "s", "t", "u", "v", "w", "x", "y", "z">>

Ord(c) == CHOOSE i \in 1..Len(CodePoints) : CodePoints[i] = c

IsDigit(c) == Ord(c) \in Ord("0")..Ord("9")
IsUpperChar(c) == Ord(c) \in Ord("A")..Ord("Z")
IsLowerChar(c) == Ord(c) \in Ord("a")..Ord("z")

\* str.startswith / str.endswith
startswith(name, prefix) ==
    /\ Len(Chars[name]) >= Len(prefix)
    /\ SubSeq(Chars[name], 1, Len(prefix)) = prefix

endswith(name, suffix) ==
    /\ Len(Chars[name]) >= Len(suffix)
    /\ SubSeq(Chars[name], Len(Chars[name]) - Len(suffix) + 1,
              Len(Chars[name])) = suffix

\* str.isidentifier
isidentifier(name) ==
    /\ Chars[name] # <<>>
    /\ ~IsDigit(Chars[name][1])
    /\ \A i \in 1..Len(Chars[name]) : Chars[name][i] \notin {"-", "."}

\* str.isupper: a cased character, and no lowercase one
isupper(name) ==
    /\ \E i \in 1..Len(Chars[name]) : IsUpperChar(Chars[name][i])
    /\ \A i \in 1..Len(Chars[name]) : ~IsLowerChar(Chars[name][i])

\* a < b for two strings, as sorted() compares them
RECURSIVE CharsLess(_, _)
CharsLess(a, b) ==
    IF b = <<>> THEN FALSE
    ELSE IF a = <<>> THEN TRUE
    ELSE IF Head(a) # Head(b) THEN Ord(Head(a)) < Ord(Head(b))
    ELSE CharsLess(Tail(a), Tail(b))

\* the names in descending order
RECURSIVE sorted_descending(_)
sorted_descending(names) ==
    IF names = {} THEN <<>>
    ELSE LET most == CHOOSE n \in names :
                         \A m \in names \ {n} : CharsLess(Chars[m], Chars[n])
         IN  <<most>> \o sorted_descending(names \ {most})

\* sorted(names)
RECURSIVE sorted(_)
sorted(names) ==
    IF names = {} THEN <<>>
    ELSE LET least == CHOOSE n \in names :
                          \A m \in names \ {n} : CharsLess(Chars[n], Chars[m])
         IN  <<least>> \o sorted(names \ {least})

\* ------------------------------------------------------------------ const.py

ATTR_IGNORE_LIST == {"new", "priv", "widget"}

PYGI_STATIC_BINDINGS == {"Error", "OptionContext", "OptionGroup"}

\* ------------------------------------------------------------------ GTypeTag

GTypeTag ==
    {"ARRAY", "BOOLEAN", "DOUBLE", "ERROR", "FILENAME", "FLOAT", "GHASH",
     "GLIST", "GSLIST", "GTYPE", "INT16", "INT32", "INT64", "INT8",
     "INTERFACE", "UINT16", "UINT32", "UINT64", "UINT8", "UNICHAR", "UTF8",
     "VOID"}

as_pytype(tag) ==
    CASE tag = "ARRAY" -> py_list
      [] tag = "BOOLEAN" -> py_bool
      [] tag = "DOUBLE" -> py_float
      [] tag = "ERROR" -> PyStr(<<"gi.repository.GLib", ".", "Error">>)
      [] tag = "FILENAME" -> py_str
      [] tag = "FLOAT" -> py_float
      [] tag = "GHASH" -> py_dict
      [] tag = "GLIST" -> py_list
      [] tag = "GSLIST" -> py_list
      [] tag = "GTYPE" -> PyStr(<<"gi.repository.GObject", ".", "GType">>)
      [] tag \in {"INT16", "INT32", "INT64", "INT8"} -> py_int
      [] tag = "INTERFACE" -> typing_Any
      [] tag \in {"UINT16", "UINT32", "UINT64", "UINT8"} -> py_int
      [] tag = "UNICHAR" -> py_str
      [] tag = "UTF8" -> py_str
      [] tag = "VOID" -> PyNone

\* ------------------------------------------------------------------ modules

\* A module name is kept as the pair (pre, rest) of the string pre + rest,
\* so that startswith('gi.overrides') and the slice after it are computed.
ModName(pre, rest) == [pre |-> pre, rest |-> rest]
ModStr(m) == m.pre \o m.rest

NoModule == "None"

get_current_module_name ==
    IF current_stub_module = NoModule THEN "I_AM_BROKEN"
    ELSE current_stub_module

get_effective_module(module) ==
    IF module.pre = "gi.overrides" THEN "gi.repository" \o module.rest
    ELSE ModStr(module)

\* cls is a class or a RegisteredTypeInfo: [module, name, ns, iname], with
\* ns/iname the namespace and name of its info ("" when it has no info)
format_cls_name(cls) ==
    IF cls.ns = "GObject" /\ cls.iname = "Object" THEN "GObject"
    ELSE cls.name

format_module(cls) ==
    LET module_name == get_effective_module(cls.module)
        cls_name == format_cls_name(cls)
    IN  IF module_name = get_current_module_name
        THEN Ok(PyStr(<<cls_name>>), {})
        ELSE Ok(PyStr(<<module_name, ".", cls_name>>), {module_name})

\* ------------------------------------------------------------------ types

\* gi._gi: the info classes that are CallableInfo / RegisteredTypeInfo
CallableInfo == {"FunctionInfo", "VFuncInfo", "CallbackInfo"}
RegisteredTypeInfo ==
    {"ObjectInfo", "InterfaceInfo", "StructInfo", "UnionInfo", "EnumInfo"}

\* A TypeInfo is [tag, is_pointer, iface, param]: iface is what
\* get_interface() gives (a record with a kind), param what
\* get_param_type(0) gives (a TypeInfo); tag "NULL" stands for None.
NoInfo == [kind |-> "none"]
NoTypeInfo == [tag |-> "NULL"]
TypeInfo(tag, is_pointer, iface, param) ==
    [tag |-> tag, is_pointer |-> is_pointer, iface |-> iface, param |-> param]
Basic(tag) == TypeInfo(tag, FALSE, NoInfo, NoTypeInfo)

format_pytype(pytype) ==
    IF pytype.k = "type" THEN PyStr(pytype.t) ELSE pytype

\* get_typeinfo.format_annotation: annotation is never an instance of
\* inspect.Parameter.empty (the class itself is used as the marker), so
\* only None takes the first branch
format_annotation(annotation) ==
    IF annotation = PyNone THEN typing_Any
    ELSE IF annotation.k = "type" THEN PyStr(annotation.t)
    ELSE IF annotation = PyStr(<<"gi.repository.GObject", ".", "Object">>)
    THEN PyStr(<<"gi.repository.GObject", ".", "GObject">>)
    ELSE annotation

RECURSIVE get_typeinfo(_)
RECURSIVE details_from_funcinfo(_, _)
RECURSIVE make_signature(_, _)

\* lines 186-195: the typing.Callable annotation of a callable interface,
\* given make_signature's outcome ms
callable_annotation(ms) ==
    IF ms.raised THEN ms
    ELSE Ok(PyStr(<<"typing", ".", "Callable", "[[">>
                  \o Join([i \in 1..Len(ms.val.signature.parameters) |->
                              format_annotation(
                                  ms.val.signature.parameters[i].annotation).t],
                          <<", ">>)
                  \o <<"], ">>
                  \o format_annotation(ms.val.signature.return_annotation).t
                  \o <<"]">>),
            ms.imps)

\* lines 221-223: the typing.List annotation, given the outcome list_type
\* of resolving the element type
list_annotation(list_type) ==
    IF list_type.raised THEN list_type
    ELSE Ok(PyStr(<<"typing", ".", "List", "[">>
                  \o Str(format_pytype(list_type.val)) \o <<"]">>),
            list_type.imps)

get_typeinfo(typeinfo) ==
    IF typeinfo.tag = "NULL"
    THEN Raise(PyExc("AttributeError", "get_tag"), {})
    ELSE IF typeinfo.tag \notin GTypeTag
    THEN Raise(PyExc("ValueError", "is not a valid GTypeTag"), {})
    ELSE IF typeinfo.tag = "INTERFACE" /\ typeinfo.iface.kind \in CallableInfo
    THEN callable_annotation(make_signature(typeinfo.iface, FALSE))
    ELSE IF typeinfo.tag = "INTERFACE"
            /\ typeinfo.iface.kind \in RegisteredTypeInfo
    THEN format_module(typeinfo.iface)
    ELSE IF as_pytype(typeinfo.tag) = py_list
    THEN list_annotation(get_typeinfo(typeinfo.param))
    ELSE IF typeinfo.tag = "VOID" /\ typeinfo.is_pointer
    THEN Ok(typing_Any, {})
    ELSE Ok(as_pytype(typeinfo.tag), {})

\* get_argument_info: (name, annotation, direction) of one argument,
\* given the outcome type_annotation of resolving its type
argument_info(arg_info, type_annotation) ==
    IF type_annotation.raised THEN type_annotation
    ELSE Ok([name |-> arg_info.name,
             annotation |-> type_annotation.val,
             direction |-> arg_info.direction],
            type_annotation.imps)

get_argument_info(arg_info) ==
    argument_info(arg_info, get_typeinfo(arg_info.type))

\* inspect.Parameter(name, annotation=..., default=...)
Parameter(name, annotation, default) ==
    [name |-> name, annotation |-> annotation, default |-> default]
NoDefault == <<>>

\* the union of the imports added by the calls outs[1..n]
RECURSIVE ImpsUpTo(_, _)
ImpsUpTo(outs, n) ==
    IF n = 0 THEN {} ELSE outs[n].imps \cup ImpsUpTo(outs, n - 1)

\* the parameters (IN, INOUT) and the returned annotations (every other
\* direction) of the arguments infos[1..n], in order
RECURSIVE ParamsOf(_)
ParamsOf(infos) ==
    IF infos = <<>> THEN <<>>
    ELSE LET a == Head(infos)
         IN  IF a.direction \in {"IN", "INOUT"}
             THEN <<Parameter(a.name, a.annotation, NoDefault)>>
                  \o ParamsOf(Tail(infos))
             ELSE ParamsOf(Tail(infos))

RECURSIVE ReturnsOf(_)
ReturnsOf(infos) ==
    IF infos = <<>> THEN <<>>
    ELSE LET a == Head(infos)
         IN  IF a.direction \in {"IN", "INOUT"}
             THEN ReturnsOf(Tail(infos))
             ELSE <<a.annotation>> \o ReturnsOf(Tail(infos))

\* composite_return without the removal of the None entries
composite_return_keeping_none(return_types) ==
    IF Len(return_types) = 1
    THEN return_types[1]
    ELSE PyStr(<<"typing", ".", "Tuple", "[">>
               \o Join([i \in 1..Len(return_types) |->
                           Str(format_pytype(return_types[i]))], <<", ">>)
               \o <<"]">>)

\* lines 314-321: the return annotation made of the list return_types
composite_return(return_types) ==
    IF Len(return_types) = 1
    THEN return_types[1]
    ELSE LET kept == SelectNotNone(return_types)
             return_type_strs ==
                 [i \in 1..Len(kept) |-> format_pytype(kept[i]).t]
         IN  PyStr(<<"typing", ".", "Tuple", "[">>
                   \o Join(return_type_strs, <<", ">>) \o <<"]">>)

\* strip_bool without the check that the removed entry is bool
strip_bool_unchecked(return_types) ==
    IF Tail(return_types) = <<>>
    THEN Raise(PyExc("RuntimeError",
                     "No returns left after boolean stripping"), {})
    ELSE Ok(Tail(return_types), {})

\* lines 305-312: boolean stripping of the list return_types
strip_bool(return_types) ==
    IF return_types[1] # py_bool
    THEN Raise(PyExc("RuntimeError",
                     "Tried to strip a non-boolean return type"), {})
    ELSE IF Tail(return_types) = <<>>
    THEN Raise(PyExc("RuntimeError",
                     "No returns left after boolean stripping"), {})
    ELSE Ok(Tail(return_types), {})

\* lines 261-279: needs_self, is_static and the preamble
needs_self(fn) ==
    fn.kind = "VFuncInfo" \/ (fn.kind = "FunctionInfo" /\ fn.is_method)

is_static(fn) ==
    /\ ~needs_self(fn)
    /\ fn.kind \in {"FunctionInfo", "VFuncInfo"}
    /\ (fn.is_constructor \/ fn.has_container)

\* lines 305-323, given the parameters, the list return_types and the
\* imports added so far; stripped is strip_bool's outcome
details_result(fn, parameters, stripped, imps) ==
    IF stripped.raised THEN Raise(stripped.val, imps)
    ELSE Ok([preamble |-> IF is_static(fn) THEN <<"@staticmethod">>
                          ELSE <<>>,
             parameters |-> parameters,
             return_type |-> composite_return(stripped.val)],
            imps)

\* lines 281-323, given outs: outs[1] the outcome of resolving the return
\* type, outs[i+1] the outcome of get_argument_info on argument i
details_of(fn, strip, outs) ==
    IF \E i \in 1..Len(outs) : outs[i].raised
    THEN LET first == CHOOSE i \in 1..Len(outs) :
                          /\ outs[i].raised
                          /\ \A j \in 1..(i - 1) : ~outs[j].raised
         IN  Raise(outs[first].val, ImpsUpTo(outs, first))
    ELSE details_result(
             fn,
             (IF needs_self(fn)
              THEN <<Parameter("self", py_empty, NoDefault)>> ELSE <<>>)
             \o ParamsOf([i \in 1..Len(fn.args) |-> outs[i + 1].val]),
             IF strip
             THEN strip_bool(<<outs[1].val>>
                             \o ReturnsOf([i \in 1..Len(fn.args) |->
                                              outs[i + 1].val]))
             ELSE Ok(<<outs[1].val>>
                     \o ReturnsOf([i \in 1..Len(fn.args) |-> outs[i + 1].val]),
                     {}),
             ImpsUpTo(outs, Len(outs)))

details_from_funcinfo(fn, strip) ==
    details_of(fn, strip,
               [i \in 1..(Len(fn.args) + 1) |->
                   IF i = 1 THEN get_typeinfo(fn.ret)
                   ELSE get_argument_info(fn.args[i - 1])])

\* inspect.Signature(parameters=..., return_annotation=...)
Signature(parameters, return_annotation) ==
    [parameters |-> parameters, return_annotation |-> return_annotation]

\* make_signature.sanitise_param_default: a default whose str() starts
\* with '<' is dropped (a default is the token sequence of its str())
sanitise_param_default(param) ==
    IF param.default # NoDefault /\ Head(param.default) = "<"
    THEN Parameter(param.name, param.annotation, NoDefault)
    ELSE param

\* lines 328-333, given details_from_funcinfo's outcome d
signature_of(d) ==
    IF d.raised THEN d
    ELSE Ok([signature |-> Signature(d.val.parameters, d.val.return_type),
             preamble |-> d.val.preamble],
            d.imps)

make_signature(fn, strip) ==
    IF fn.kind \in CallableInfo
    THEN signature_of(details_from_funcinfo(fn, strip))
    ELSE IF fn.kind = "FunctionType"
    THEN Ok([signature |->
                 Signature([i \in 1..Len(fn.params) |->
                               sanitise_param_default(fn.params[i])],
                           fn.return_annotation),
             preamble |-> <<>>],
            {})
    ELSE Raise(PyExc("NotImplementedError", ""), {})

\* ------------------------------------------------------------------ text

\* inspect.formatannotation: a class by its name, anything else by repr()
formatannotation(annotation) ==
    IF annotation.k = "type" THEN annotation.t
    ELSE IF annotation.k = "None" THEN <<"None">>
    ELSE <<"'">> \o annotation.t \o <<"'">>

\* str(inspect.Parameter)
ParameterStr(param) ==
    <<param.name>>
    \o (IF param.annotation # py_empty
        THEN <<":">> \o formatannotation(param.annotation) ELSE <<>>)
    \o (IF param.default # NoDefault
        THEN <<"=">> \o param.default ELSE <<>>)

\* str(inspect.Signature)
SignatureStr(sig) ==
    <<"(">>
    \o Join([i \in 1..Len(sig.parameters) |-> ParameterStr(sig.parameters[i])],
            <<", ">>)
    \o <<")">>
    \o (IF sig.return_annotation # py_empty
        THEN <<" -> ">> \o formatannotation(sig.return_annotation)
        ELSE <<>>)

\* lines 385-390: make_signature's outcome ms, or the ValueError
signature_or_error(attr_name, ms) ==
    IF ms.raised
    THEN Raise(PyExc("ValueError",
                     "couldn't make signature for " \o attr_name), ms.imps)
    ELSE ms

\* format_functioninfo up to line 390: the signature or the error
format_functioninfo_signature(attr_name, func_info, strip) ==
    IF func_info.kind \notin {"VFuncInfo", "FunctionInfo", "FunctionType"}
    THEN Raise(PyExc("AssertionError", ""), {})
    ELSE signature_or_error(attr_name, make_signature(func_info, strip))

\* lines 392-398: the text "[preamble\n]def name(sig): ...\n"
function_text(attr_name, ms) ==
    IF ms.raised THEN ms
    ELSE Ok((IF ms.val.preamble # <<>>
             THEN ms.val.preamble \o <<"\n">> ELSE <<>>)
            \o <<"def ", attr_name>> \o SignatureStr(ms.val.signature)
            \o <<": ...", "\n">>,
            ms.imps)

format_functioninfo(attr_name, func_info, strip) ==
    function_text(attr_name,
                  format_functioninfo_signature(attr_name, func_info, strip))

\* ------------------------------------------------------------------ stubs
\* An attribute value (what getattr gives) is a record with a kind: a
\* FunctionInfo or VFuncInfo, a "FunctionType" (with wrapped, its
\* __wrapped__, and bool_override, whether its __qualname__ starts with
\* PYGI_BOOL_OVERRIDE_FN), a "property", a value [kind, tname, isnum, num]
\* (kind the Python or GObject base type, tname type(value).__name__, num
\* its number when it compares equal to one), a "class", "other", or
\* "AttributeError" when getattr raises.
\*
\* A class is [module, name, ns, iname, info_kind, parent, dict, fields,
\* methods, is_flags, values, annotations]: info_kind the class of its
\* __info__ ("none" without one), parent cls.__gtype__.parent.pytype,
\* dict its __dict__ as name -> getattr(cls, name), fields and methods what
\* __info__.get_fields() / get_methods() give by name, values the numbers
\* of __enum_values__ / __flags_values__, annotations its type hints.

Value(kind, tname, num) ==
    [kind |-> kind, tname |-> tname, isnum |-> TRUE, num |-> num]
Text(kind, tname) ==
    [kind |-> kind, tname |-> tname, isnum |-> FALSE, num |-> 0]

\* str.splitlines of a text: the pieces between the "\n" tokens
RECURSIVE splitlines(_)
splitlines(text) ==
    IF text = <<>> THEN <<>>
    ELSE IF \A i \in 1..Len(text) : text[i] # "\n" THEN <<text>>
    ELSE <<SubSeq(text, 1,
                  (CHOOSE i \in 1..Len(text) :
                       text[i] = "\n" /\ \A j \in 1..(i - 1) : text[j] # "\n")
                  - 1)>>
         \o splitlines(SubSeq(text,
                (CHOOSE i \in 1..Len(text) :
                     text[i] = "\n" /\ \A j \in 1..(i - 1) : text[j] # "\n")
                + 1, Len(text)))

\* generate_class_stubs.stub_out: every line that is not blank is indented
indented(lines) ==
    [i \in 1..Len(lines) |->
        IF lines[i] # <<>> THEN <<"    ">> \o lines[i] ELSE lines[i]]

\* a stubber's call stub_out(outcome) on the lines acc gathered so far:
\* in a class the text is split and indented (lines 539-543), at module
\* scope it is appended whole (line 631); a raise passes through
stub_out(acc, outcome, in_class) ==
    IF outcome.raised
    THEN Raise(outcome.val, acc.imps \cup outcome.imps)
    ELSE Ok(acc.val \o (IF in_class THEN indented(splitlines(outcome.val))
                        ELSE <<outcome.val>>),
            acc.imps \cup outcome.imps)

\* the kinds of attribute values that are plain values
ValueKinds == {"int", "bool", "str", "float", "GType", "GFlags", "GEnum"}

\* type(value).__name__
type_name(value) ==
    IF value.kind \in ValueKinds THEN value.tname
    ELSE IF value.kind = "FunctionType" THEN "function"
    ELSE value.kind

\* attr in expected_values: equality with one of the numbers
in_values(attr, expected_values) ==
    attr.kind \in ValueKinds /\ attr.isnum /\ attr.num \in expected_values

\* line 366, given the outcome type_str of format_module
variable_text(name, type_str) ==
    Ok(<<name, " = ...  # type: ">> \o type_str.val.t, type_str.imps)

format_variable(name, value) ==
    IF value.kind = "class"
    THEN variable_text(name, format_module(value.meta))
    ELSE Ok(<<name, " = ...  # type: ", type_name(value)>>, {})

format_property(name, value, annotations) ==
    IF name \in DOMAIN annotations
    THEN Ok(<<name, " = ...  # type: ", annotations[name]>>, {})
    ELSE Ok(<<name, " = ...  # type: ">> \o typing_Any.t, {})

\* lines 378-379, given get_typeinfo's outcome pytype
fieldinfo_text(attr_name, pytype) ==
    IF pytype.raised THEN pytype
    ELSE Ok(<<attr_name, " = ...  # type: ">> \o Str(format_pytype(pytype.val)),
            pytype.imps)

format_fieldinfo(attr_name, fieldinfo) ==
    fieldinfo_text(attr_name, get_typeinfo(fieldinfo))

\* attr_generator: whether the name attr_name of cls is yielded
\* attr_generator without the test of lines 407-409
survives_unfiltered(attr_name) ==
    isidentifier(attr_name)

survives(attr_name) ==
    /\ ~(startswith(attr_name, <<"_", "_">>) \/ attr_name \in ATTR_IGNORE_LIST)
    /\ isidentifier(attr_name)

attr_generator(cls, attr_name) ==
    /\ survives(attr_name)
    /\ cls.dict[attr_name].kind # "AttributeError"

\* generic_attr_stubber with the test of the fields moved to the front
generic_attr_stubber_fields_first(cls, attr_name, attr, acc, in_class) ==
    IF attr_name \in DOMAIN cls.fields
    THEN stub_out(acc, format_fieldinfo(attr_name, cls.fields[attr_name]),
                  in_class)
    ELSE IF attr.kind = "FunctionType" /\ attr.wrapped # NoInfo
    THEN stub_out(acc,
                  format_functioninfo(attr_name, attr.wrapped,
                                      attr.bool_override),
                  in_class)
    ELSE IF attr.kind \in {"VFuncInfo", "FunctionInfo", "FunctionType"}
    THEN stub_out(acc, format_functioninfo(attr_name, attr, FALSE), in_class)
    ELSE IF attr.kind \in ValueKinds
    THEN stub_out(acc, format_variable(attr_name, attr), in_class)
    ELSE acc

generic_attr_stubber(cls, attr_name, attr, acc, in_class) ==
    IF attr.kind = "FunctionType" /\ attr.wrapped # NoInfo
    THEN stub_out(acc,
                  format_functioninfo(attr_name, attr.wrapped,
                                      attr.bool_override),
                  in_class)
    ELSE IF attr.kind \in {"VFuncInfo", "FunctionInfo"}
    THEN stub_out(acc, format_functioninfo(attr_name, attr, FALSE), in_class)
    ELSE IF attr.kind = "FunctionType" /\ cls.module.pre = "gi.overrides"
    THEN stub_out(acc, format_functioninfo(attr_name, attr, FALSE), in_class)
    ELSE IF attr_name \in DOMAIN cls.fields
    THEN stub_out(acc, format_fieldinfo(attr_name, cls.fields[attr_name]),
                  in_class)
    ELSE IF attr.kind = "property" /\ cls.module.pre = "gi.overrides"
    THEN stub_out(acc, format_property(attr_name, attr, cls.annotations),
                  in_class)
    ELSE IF attr.kind \in {"GType", "GFlags", "GEnum"}
    THEN stub_out(acc, format_variable(attr_name, attr), in_class)
    ELSE IF attr.kind \in {"int", "bool", "str", "float"}
    THEN stub_out(acc, format_variable(attr_name, attr), in_class)
    ELSE acc

\* the loops below run over the sorted names attrs with the lines gathered
\* so far in acc; a raise ends the loop
RECURSIVE generate_gobject_stubs(_, _, _)
generate_gobject_stubs(cls, attrs, acc) ==
    IF acc.raised \/ attrs = <<>> THEN acc
    ELSE generate_gobject_stubs(
             cls, Tail(attrs),
             IF attr_generator(cls, Head(attrs))
             THEN generic_attr_stubber(cls, Head(attrs),
                                       cls.dict[Head(attrs)], acc, TRUE)
             ELSE acc)

\* genum_attr without the test of the value against the declared members
genum_attr_any_value(cls, attr_name, attr, acc) ==
    IF ~isupper(attr_name)
    THEN IF attr.kind = "FunctionInfo"
         THEN stub_out(acc, format_functioninfo(attr_name, attr, FALSE), TRUE)
         ELSE acc
    ELSE stub_out(acc, format_variable(attr_name, attr), TRUE)

\* lines 493-502: one attribute of an enum that is not LEVEL_MASK
genum_attr(cls, attr_name, attr, acc) ==
    IF ~isupper(attr_name) \/ ~in_values(attr, cls.values)
    THEN IF attr.kind = "FunctionInfo"
         THEN stub_out(acc, format_functioninfo(attr_name, attr, FALSE), TRUE)
         ELSE acc
    ELSE stub_out(acc, format_variable(attr_name, attr), TRUE)

RECURSIVE generate_genum_stub(_, _, _)
generate_genum_stub(cls, attrs, acc) ==
    IF acc.raised \/ attrs = <<>> THEN acc
    ELSE generate_genum_stub(
             cls, Tail(attrs),
             IF ~attr_generator(cls, Head(attrs)) THEN acc
             ELSE IF Head(attrs) = "LEVEL_MASK"
             THEN stub_out(acc,
                           format_variable(Head(attrs), cls.dict[Head(attrs)]),
                           TRUE)
             ELSE genum_attr(cls, Head(attrs), cls.dict[Head(attrs)], acc))

\* struct_attr that skips a name that is in neither map
struct_attr_skipping(cls, attr_name, acc) ==
    IF attr_name \in DOMAIN cls.fields
    THEN stub_out(acc, format_fieldinfo(attr_name, cls.fields[attr_name]),
                  TRUE)
    ELSE IF attr_name \in DOMAIN cls.methods
    THEN stub_out(acc,
                  format_functioninfo(attr_name, cls.methods[attr_name],
                                      FALSE),
                  TRUE)
    ELSE acc

\* lines 514-521: one attribute of a struct
struct_attr(cls, attr_name, acc) ==
    IF attr_name \in DOMAIN cls.fields
    THEN stub_out(acc, format_fieldinfo(attr_name, cls.fields[attr_name]),
                  TRUE)
    ELSE IF attr_name \in DOMAIN cls.methods
    THEN stub_out(acc,
                  format_functioninfo(attr_name, cls.methods[attr_name],
                                      FALSE),
                  TRUE)
    ELSE Raise(PyExc("NotImplementedError",
                     "is not in field or method map"), acc.imps)

RECURSIVE generate_struct_stub(_, _, _)
generate_struct_stub(cls, attrs, acc) ==
    IF acc.raised \/ attrs = <<>> THEN acc
    ELSE generate_struct_stub(
             cls, Tail(attrs),
             IF attr_generator(cls, Head(attrs))
             THEN struct_attr(cls, Head(attrs), acc)
             ELSE acc)

\* lines 139-150, given format_module's outcome for the parent
gi_class_line(name, parent) ==
    Ok(<<"class ", name, "(">> \o parent.val.t \o <<"):">>, parent.imps)

format_gi_class(cls) ==
    IF cls.parent # NoInfo
    THEN gi_class_line(format_cls_name(cls), format_module(cls.parent))
    ELSE Ok(<<"class ", format_cls_name(cls), ":">>, {})

\* lines 530-534: stub_lines after the class line
class_head(cls) ==
    Ok(<<<<>>, format_gi_class(cls).val>>, format_gi_class(cls).imps)

\* the lines gathered by the stubber of the class's kind (lines 546-566)
class_body(cls, attrs) ==
    IF cls.info_kind = "none"
    THEN generate_gobject_stubs(cls, attrs, class_head(cls))
    ELSE IF cls.info_kind \in {"ObjectInfo", "InterfaceInfo"}
    THEN generate_gobject_stubs(cls, attrs, class_head(cls))
    ELSE IF cls.info_kind \in {"StructInfo", "UnionInfo"}
    THEN generate_struct_stub(cls, attrs, class_head(cls))
    ELSE IF cls.info_kind = "EnumInfo"
    THEN generate_genum_stub(cls, attrs, class_head(cls))
    ELSE Raise(PyExc("NotImplementedError", ""), class_head(cls).imps)

\* lines 568-569 (and 552-553): the placeholder line ends the body
class_end(body) ==
    IF body.raised THEN body ELSE stub_out(body, Ok(<<"...">>, {}), TRUE)

generate_class_stubs(module, cls) ==
    class_end(class_body(cls, sorted(DOMAIN cls.dict)))

\* ------------------------------------------------------------------ inputs

DirectionSet == {"IN", "OUT", "INOUT"}

GdkColorInfo ==
    [kind |-> "StructInfo", module |-> ModName("gi.repository", ".Gdk"),
     name |-> "Color", ns |-> "Gdk", iname |-> "Color"]

\* the argument and return types signatures are drawn from
SigTypes ==
    {Basic("VOID"), Basic("BOOLEAN"), Basic("INT32"),
     TypeInfo("INTERFACE", TRUE, GdkColorInfo, NoTypeInfo)}

ArgNames == <<"a", "b", "c", "d">>

ArgLists(n) ==
    {[i \in 1..n |-> [name |-> ArgNames[i], type |-> td[i][1],
                      direction |-> td[i][2]]] :
        td \in [1..n -> SigTypes \X DirectionSet]}

FunctionShapes ==
    {[kind |-> "FunctionInfo", is_method |-> TRUE, is_constructor |-> FALSE,
      has_container |-> TRUE],
     [kind |-> "FunctionInfo", is_method |-> FALSE, is_constructor |-> FALSE,
      has_container |-> FALSE],
     [kind |-> "VFuncInfo", is_method |-> FALSE, is_constructor |-> FALSE,
      has_container |-> TRUE]}

CallableInfos ==
    {[kind |-> sh.kind, is_method |-> sh.is_method,
      is_constructor |-> sh.is_constructor,
      has_container |-> sh.has_container, ret |-> r, args |-> a] :
        sh \in FunctionShapes, r \in SigTypes,
        a \in UNION {ArgLists(n) : n \in 0..MaxArgs}}

\* plain Python functions (types.FunctionType)
PyFunction(params, return_annotation) ==
    [kind |-> "FunctionType", params |-> params,
     return_annotation |-> return_annotation,
     wrapped |-> NoInfo, bool_override |-> FALSE]

PyFunctions ==
    {PyFunction(<<Parameter("self", py_empty, NoDefault)>>, py_empty),
     PyFunction(<<Parameter("self", py_empty, NoDefault),
                  Parameter("red", py_empty, <<"<", "object object>">>)>>,
                py_empty),
     PyFunction(<<Parameter("x", py_int, <<"0">>)>>, py_bool)}

\* the variables of get_typeinfo when it is not what is run
NoTypeRun ==
    /\ type_info = NoValue
    /\ type_result = NoValue

\* the variables of main when main is not what is run
NoModuleRun ==
    /\ module_dict = <<>>
    /\ main_i = 0
    /\ module_attrs = <<>>
    /\ attr_stubs = <<>>
    /\ stub = NoValue
    /\ files = {}
    /\ referenced = {}

\* ------------------------------------------------------------------ SpecSig
\* format_functioninfo applied to one callable, inside a module run

InitSig ==
    /\ current_stub_module = "gi.repository.Gtk"
    /\ current_gi_imports = {"typing"}
    /\ pc = "call"
    /\ function \in CallableInfos \cup PyFunctions
    /\ strip_bool_result \in BOOLEAN
    /\ signature = NoValue
    /\ fn_result = NoValue
    /\ NoTypeRun
    /\ stub_class = NoValue
    /\ stub_lines = NoValue
    /\ NoModuleRun

FormatFunctioninfo ==
    /\ pc = "call"
    /\ signature' = format_functioninfo_signature("f", function,
                                                  strip_bool_result)
    /\ fn_result' = function_text("f", signature')
    /\ current_gi_imports' = current_gi_imports \cup signature'.imps
    /\ pc' = "done"
    /\ UNCHANGED <<current_stub_module, function, strip_bool_result, type_info,
                   type_result, clsvars, modvars>>

NextSig == FormatFunctioninfo

SpecSig == InitSig /\ [][NextSig]_vars

\* ------------------------------------------------------------------ classes
\* the classes generate_class_stubs is applied to

\* the largest number of names in a class's __dict__
MaxAttrs == 3

GObjectObject ==
    [module |-> ModName("gi.repository", ".GObject"), name |-> "Object",
     ns |-> "GObject", iname |-> "Object"]

IntField == Basic("INT32")
FloatField == Basic("DOUBLE")

\* def area(self) -> int / def copy(self) -> Color, introspected methods
Method(ret) ==
    [kind |-> "FunctionInfo", is_method |-> TRUE, is_constructor |-> FALSE,
     has_container |-> TRUE, ret |-> ret, args |-> <<>>]

\* a function wrapped by an override, as functools.wraps leaves it
Wrapped(fn, bool_override) ==
    [kind |-> "FunctionType",
     params |-> <<Parameter("self", py_empty, NoDefault)>>,
     return_annotation |-> py_empty, wrapped |-> fn,
     bool_override |-> bool_override]

\* a function of the class that is no method: it gets @staticmethod
StaticFunction ==
    [kind |-> "FunctionInfo", is_method |-> FALSE, is_constructor |-> FALSE,
     has_container |-> TRUE, ret |-> Basic("INT32"), args |-> <<>>]

from_floats ==
    PyFunction(<<Parameter("self", py_empty, NoDefault),
                 Parameter("red", py_empty, NoDefault)>>, py_empty)

\* the dicts whose names are at most MaxAttrs names of menu, a function
\* from names to the sequence of the values the name may have
Dicts(menu) ==
    UNION {{[n \in N |-> menu[n][c[n]]] :
               c \in {c \in [N -> 1..2] : \A n \in N : c[n] <= Len(menu[n])}} :
           N \in {S \in SUBSET DOMAIN menu : Cardinality(S) <= MaxAttrs}}

Class(module, name, info_kind, parent, dict, fields, methods, values) ==
    [module |-> module, name |-> name, ns |-> "Gdk", iname |-> name,
     info_kind |-> info_kind, parent |-> parent, dict |-> dict,
     fields |-> fields, methods |-> methods, is_flags |-> TRUE,
     values |-> values, annotations |-> <<>>]

\* a struct such as Gdk.Color with its override: fields x and both,
\* methods area and both, and attributes that are in neither map
StructMenu ==
       "x" :> <<[kind |-> "property"]>>
    @@ "both" :> <<[kind |-> "property"]>>
    @@ "area" :> <<Method(Basic("INT32"))>>
    @@ "bogus" :> <<[kind |-> "property"]>>
    @@ "new" :> <<Method(Basic("VOID"))>>
    @@ "__init__" :> <<from_floats>>
    @@ "a-b" :> <<Value("int", "int", 1)>>
    @@ "MAX_VALUE" :> <<Value("int", "int", 65535)>>
    @@ "blue_float" :> <<[kind |-> "property"]>>
    @@ "from_floats" :> <<from_floats>>

Structs ==
    {Class(ModName("gi.overrides", ".Gdk"), "Color", k, NoInfo, d,
           "x" :> IntField @@ "both" :> IntField,
           "area" :> Method(Basic("INT32")) @@ "both" :> Method(Basic("VOID")),
           {}) :
        k \in {"StructInfo", "UnionInfo"}, d \in Dicts(StructMenu)}

\* a flags class with the declared members A = 1 and B = 2
EnumMenu ==
       "A" :> <<Value("GFlags", "Flags", 1), Value("GFlags", "Flags", 3)>>
    @@ "B" :> <<Value("GFlags", "Flags", 2), Text("str", "str")>>
    @@ "b" :> <<Value("GFlags", "Flags", 1)>>
    @@ "LEVEL_MASK" :> <<Value("GFlags", "Flags", 7)>>
    @@ "TYPE_X" :> <<Method(Basic("INT32"))>>
    @@ "f" :> <<Method(Basic("INT32")), [kind |-> "AttributeError"]>>
    @@ "from_floats" :> <<from_floats>>
    @@ "new" :> <<Value("GFlags", "Flags", 1)>>
    @@ "__init__" :> <<Value("GFlags", "Flags", 2)>>
    @@ "value" :> <<Value("float", "float", 1)>>

Enums ==
    {Class(ModName("gi.repository", ".Gdk"), "Flags", "EnumInfo", NoInfo, d,
           <<>>, <<>>, {1, 2}) :
        d \in Dicts(EnumMenu)}

\* an object class, a class without __info__ and one whose info is of no
\* handled kind
ObjectMenu ==
       "new" :> <<Method(Basic("VOID"))>>
    @@ "priv" :> <<[kind |-> "other"]>>
    @@ "widget" :> <<[kind |-> "property"]>>
    @@ "__init__" :> <<from_floats>>
    @@ "a-b" :> <<Value("int", "int", 1)>>
    @@ "value" :> <<[kind |-> "other"], [kind |-> "property"]>>
    @@ "double" :> <<Method(Basic("INT32")), Method(Basic("GTYPE"))>>
    @@ "f" :> <<Wrapped(Method(Basic("BOOLEAN")), TRUE),
                Wrapped(Method(Basic("INT32")), FALSE)>>
    @@ "version" :> <<Text("str", "str"), [kind |-> "AttributeError"]>>
    @@ "x" :> <<Method(Basic("INT32")), Value("int", "int", 1)>>
    @@ "area" :> <<[kind |-> "other"]>>
    @@ "from_floats" :> <<from_floats, StaticFunction>>

\* the fields of __info__; a class without __info__ has none
InfoFields(kind) ==
    IF kind = "none" THEN <<>>
    ELSE "value" :> IntField @@ "x" :> FloatField @@ "f" :> FloatField
         @@ "from_floats" :> FloatField

Objects ==
    {Class(m, "Widget", k, p, d, InfoFields(k), <<>>, {}) :
        m \in {ModName("gi.repository", ".Gdk"),
               ModName("gi.overrides", ".Gdk")},
        k \in {"ObjectInfo", "none", "CallbackInfo"},
        p \in {GObjectObject, NoInfo},
        d \in Dicts(ObjectMenu)}

\* ------------------------------------------------------------------ SpecClass
\* generate_class_stubs applied to one class; as in the test, it may be
\* called before any generate_module_stub, or during a run of Gdk's

InitClass ==
    /\ \/ current_stub_module = NoModule /\ current_gi_imports = {}
       \/ /\ current_stub_module = "gi.repository.Gdk"
          /\ current_gi_imports = {"typing"}
    /\ pc = "call"
    /\ stub_class \in Structs \cup Enums \cup Objects
    /\ stub_lines = NoValue
    /\ function = NoValue
    /\ strip_bool_result = FALSE
    /\ signature = NoValue
    /\ fn_result = NoValue
    /\ NoTypeRun
    /\ NoModuleRun

GenerateClassStubs ==
    /\ pc = "call"
    /\ stub_lines' = generate_class_stubs(current_stub_module, stub_class)
    /\ current_gi_imports' = current_gi_imports \cup stub_lines'.imps
    /\ pc' = "done"
    /\ UNCHANGED <<current_stub_module, stub_class, sigvars, modvars>>

NextClass == GenerateClassStubs

SpecClass == InitClass /\ [][NextClass]_vars

\* ------------------------------------------------------------------ modules
\* generate_module_stub and main. A module is [name, module, introspection,
\* dict, fields, annotations]: name its __name__, module the __module__ its
\* object shows, introspection whether it is an IntrospectionModule or has
\* an _introspection_module, dict its attributes after the lazy loading of
\* lines 594-602 as name -> getattr(module, name); it has no __info__
\* (fields is empty). A class attribute is [kind |-> "class", cls, meta].

\* the largest number of names in a module's __dict__
MaxModuleAttrs == 2

ClassAttr(c) ==
    [kind |-> "class", cls |-> c,
     meta |-> [module |-> ModName("gi.types", ""), name |-> "GObjectMeta",
               ns |-> "", iname |-> ""]]

\* a loop that goes on to the next attribute when a class raises
extend_skipping(acc, out) ==
    IF out.raised THEN Ok(acc.val, acc.imps \cup out.imps)
    ELSE Ok(acc.val \o <<<<>>>> \o out.val, acc.imps \cup out.imps)

\* lines 627-628: attr_stubs.append('') and attr_stubs.extend(out)
extend(acc, out) ==
    IF out.raised THEN Raise(out.val, acc.imps \cup out.imps)
    ELSE Ok(acc.val \o <<<<>>>> \o out.val, acc.imps \cup out.imps)

\* lines 614-631: the body of the loop for one yielded attribute
module_attr(module, attr_name, attr, acc) ==
    IF attr.kind = "class"
    THEN IF \/ endswith(attr_name, <<"C", "l", "a", "s", "s">>)
            \/ endswith(attr_name, <<"P", "r", "i", "v", "a", "t", "e">>)
         THEN acc
         ELSE IF ModStr(attr.cls.module) = "gi._glib"
         THEN acc
         ELSE extend(acc, generate_class_stubs(module, attr.cls))
    ELSE generic_attr_stubber(module, attr_name, attr, acc, FALSE)

\* lines 608-631: one iteration of the loop over attr_generator
module_step(module, attr_name, acc) ==
    IF attr_generator(module, attr_name)
    THEN module_attr(module, attr_name, module.dict[attr_name], acc)
    ELSE acc

\* lines 633-636: the returned text
stub_str(imports, stubs) ==
    Join([i \in 1..Cardinality(imports) |-> <<"import ", sorted(imports)[i]>>],
         <<"\n">>)
    \o <<"\n">> \o Join(stubs, <<"\n">>)

\* ------------------------------------------------------------------ graphs
\* the modules main is run on: Gdk and then Gtk (with overrides)

GdkColorClass(kind, names) ==
    Class(ModName("gi.overrides", ".Gdk"), "Color", kind, NoInfo,
          [n \in names |-> StructMenu[n][1]],
          "x" :> IntField @@ "both" :> IntField,
          "area" :> Method(Basic("INT32")) @@ "both" :> Method(Basic("VOID")),
          {})

WidgetOf(ns, kind, names) ==
    Class(ModName("gi.repository", ns), "Widget", kind, GObjectObject,
          [n \in names |-> ObjectMenu[n][1]],
          InfoFields(kind), <<>>, {})

GtkFlagsClass(names) ==
    Class(ModName("gi.repository", ".Gtk"), "Flags", "EnumInfo", NoInfo,
          [n \in names |-> EnumMenu[n][1]], <<>>, <<>>, {1, 2})

\* def f(..., color: Gdk.Color) and def f(..., type: GType)
Function(type) ==
    [kind |-> "FunctionInfo", is_method |-> FALSE, is_constructor |-> FALSE,
     has_container |-> FALSE, ret |-> Basic("VOID"),
     args |-> <<[name |-> "a", type |-> type, direction |-> "IN"]>>]

\* gboolean double(gint *a): the boolean can be stripped
BoolAndOut ==
    [kind |-> "FunctionInfo", is_method |-> FALSE, is_constructor |-> FALSE,
     has_container |-> FALSE, ret |-> Basic("BOOLEAN"),
     args |-> <<[name |-> "a", type |-> Basic("INT32"), direction |-> "OUT"]>>]

ColorType == TypeInfo("INTERFACE", TRUE, GdkColorInfo, NoTypeInfo)

GtkMenu ==
       "Widget" :>
           <<ClassAttr(WidgetOf(".Gtk", "ObjectInfo",
                                {"new", "__init__", "double", "value"})),
             ClassAttr(WidgetOf(".Gtk", "none",
                                {"priv", "version", "widget"}))>>
    @@ "Flags" :> <<ClassAttr(GtkFlagsClass({"A", "new", "b"}))>>
    @@ "f" :> <<Function(Basic("GTYPE")), Wrapped(Method(Basic("INT32")), TRUE)>>
    @@ "new" :> <<Function(ColorType)>>
    @@ "WidgetClass" :> <<ClassAttr(GdkColorClass("StructInfo", {"bogus"}))>>
    @@ "version" :> <<Text("str", "str"), [kind |-> "AttributeError"]>>
    @@ "double" :> <<Function(ColorType)>>

GdkMenu ==
       "Color" :>
           <<ClassAttr(GdkColorClass("StructInfo",
                                     {"x", "both", "area", "new", "__init__"})),
             ClassAttr(GdkColorClass("UnionInfo", {"x", "bogus"}))>>
    @@ "Widget" :> <<ClassAttr(WidgetOf(".Gdk", "CallbackInfo", {"value"})),
                     ClassAttr(WidgetOf(".Gdk", "InterfaceInfo", {"value"}))>>
    @@ "priv" :> <<Value("int", "int", 1)>>
    @@ "double" :> <<Function(ColorType), Wrapped(BoolAndOut, TRUE)>>
    @@ "__init__" :> <<from_floats>>

ModuleDicts(menu) ==
    UNION {{[n \in N |-> menu[n][c[n]]] :
               c \in {c \in [N -> 1..2] : \A n \in N : c[n] <= Len(menu[n])}} :
           N \in {S \in SUBSET DOMAIN menu : Cardinality(S) <= MaxModuleAttrs}}

Module(name, module, introspection, dict) ==
    [name |-> name, module |-> module, introspection |-> introspection,
     dict |-> dict, fields |-> <<>>, annotations |-> <<>>]

GtkModules ==
    {Module("gi.repository.Gtk", ModName("gi.overrides", ""), TRUE, d) :
        d \in ModuleDicts(GtkMenu)}

GdkModules ==
    {Module("gi.repository.Gdk", ModName("gi.module", ""), i, d) :
        i \in BOOLEAN, d \in ModuleDicts(GdkMenu)}

\* ------------------------------------------------------------------ Spec
\* main: generate_module_stub and write_to_stubs for each module in turn

Init ==
    /\ current_stub_module = NoModule
    /\ current_gi_imports = {}
    /\ pc = "main"
    /\ module_dict \in {<<m1, m2>> : m1 \in GdkModules, m2 \in GtkModules}
    /\ main_i = 0
    /\ module_attrs = <<>>
    /\ attr_stubs = <<>>
    /\ stub = NoValue
    /\ files = {}
    /\ referenced = {}
    /\ function = NoValue
    /\ strip_bool_result = FALSE
    /\ signature = NoValue
    /\ fn_result = NoValue
    /\ NoTypeRun
    /\ stub_class = NoValue
    /\ stub_lines = NoValue

\* a run that adds typing to the imports left by the run before it
stale_context(module) ==
    [module |-> module.name, imports |-> current_gi_imports \cup {"typing"}]

\* lines 580-582: the globals a run of generate_module_stub starts with
fresh_context(module) ==
    [module |-> module.name, imports |-> {"typing"}]

\* main.py:89-90 and gityping.py:572-582: main calls generate_module_stub
\* for its next module, which sets the two globals
CallGenerateModuleStub ==
    /\ pc = "main"
    /\ main_i < Len(module_dict)
    /\ main_i' = main_i + 1
    /\ current_stub_module' = fresh_context(module_dict[main_i']).module
    /\ current_gi_imports' = fresh_context(module_dict[main_i']).imports
    /\ referenced' = {}
    /\ stub' = NoValue
    /\ pc' = "check"
    /\ UNCHANGED <<module_dict, module_attrs, attr_stubs, files, sigvars,
                   clsvars>>

\* lines 584-606: a module that is no introspection module raises, else
\* its names are sorted and the loop starts
CheckModule ==
    /\ pc = "check"
    /\ IF module_dict[main_i].introspection
       THEN /\ module_attrs' = sorted(DOMAIN module_dict[main_i].dict)
            /\ attr_stubs' = <<>>
            /\ pc' = "loop"
       ELSE /\ pc' = "crashed"
            /\ UNCHANGED <<module_attrs, attr_stubs>>
    /\ UNCHANGED <<current_stub_module, current_gi_imports, module_dict,
                   main_i, stub, files, referenced, sigvars, clsvars>>

\* what one iteration leaves, given its outcome out: a raise is caught
\* nowhere and ends main
LoopStep(out) ==
    /\ current_gi_imports' = current_gi_imports \cup out.imps
    /\ referenced' = referenced \cup out.imps
    /\ IF out.raised
       THEN pc' = "crashed" /\ UNCHANGED <<module_attrs, attr_stubs>>
       ELSE /\ pc' = "loop"
            /\ attr_stubs' = out.val
            /\ module_attrs' = Tail(module_attrs)

\* lines 608-631: one iteration of the loop
ModuleAttr ==
    /\ pc = "loop"
    /\ module_attrs # <<>>
    /\ LoopStep(module_step(module_dict[main_i], Head(module_attrs),
                            Ok(attr_stubs, {})))
    /\ UNCHANGED <<current_stub_module, module_dict, main_i, stub, files,
                   sigvars, clsvars>>

\* lines 633-636: the text is returned to main
ReturnStub ==
    /\ pc = "loop"
    /\ module_attrs = <<>>
    /\ stub' = stub_str(current_gi_imports, attr_stubs)
    /\ pc' = "write"
    /\ UNCHANGED <<current_stub_module, current_gi_imports, module_dict,
                   main_i, module_attrs, attr_stubs, files, referenced,
                   sigvars, clsvars>>

\* main.py:91 and 28-31: the stub file of the module is written
WriteToStubs ==
    /\ pc = "write"
    /\ files' = {f \in files : f.name # module_dict[main_i].name}
                \cup {[name |-> module_dict[main_i].name, text |-> stub]}
    /\ pc' = "main"
    /\ UNCHANGED <<current_stub_module, current_gi_imports, module_dict,
                   main_i, module_attrs, attr_stubs, stub, referenced,
                   sigvars, clsvars>>

\* main.py:89: the loop of main is over
MainExit ==
    /\ pc = "main"
    /\ main_i = Len(module_dict)
    /\ pc' = "exit"
    /\ UNCHANGED <<current_stub_module, current_gi_imports, modvars, sigvars,
                   clsvars>>

Next ==
    \/ CallGenerateModuleStub
    \/ CheckModule
    \/ ModuleAttr
    \/ ReturnStub
    \/ WriteToStubs
    \/ MainExit

Spec == Init /\ [][Next]_vars

\* ------------------------------------------------------------------ SpecType
\* get_typeinfo applied to one TypeInfo, inside a run for Gtk

\* the deepest nesting of container types
MaxDepth == 2

\* what get_tag() may give: the members of GTypeTag and a value that is
\* none of them
TypeTags == GTypeTag \cup {"UNKNOWN"}

ListTags == {"ARRAY", "GLIST", "GSLIST"}
ContainerTags == ListTags \cup {"GHASH"}

\* void (*)(gint a), a callback
IntCallback ==
    [kind |-> "CallbackInfo", ret |-> Basic("VOID"),
     args |-> <<[name |-> "a", type |-> Basic("INT32"), direction |-> "IN"]>>]

\* the types without a parameter type
LeafTypeInfos ==
    {TypeInfo(t, p, NoInfo, NoTypeInfo) :
        t \in TypeTags \ (ContainerTags \cup {"INTERFACE"}), p \in BOOLEAN}
    \cup {TypeInfo("INTERFACE", TRUE, i, NoTypeInfo) :
             i \in {GdkColorInfo, IntCallback, [kind |-> "ConstantInfo"]}}

RECURSIVE TypeInfosOfDepth(_)
TypeInfosOfDepth(d) ==
    IF d = 0 THEN LeafTypeInfos
    ELSE LeafTypeInfos
         \cup {TypeInfo(t, TRUE, NoInfo, e) :
                  t \in ContainerTags, e \in TypeInfosOfDepth(d - 1)}

InitType ==
    /\ current_stub_module = "gi.repository.Gtk"
    /\ current_gi_imports = {"typing"}
    /\ pc = "call"
    /\ type_info \in TypeInfosOfDepth(MaxDepth)
    /\ type_result = NoValue
    /\ function = NoValue
    /\ strip_bool_result = FALSE
    /\ signature = NoValue
    /\ fn_result = NoValue
    /\ stub_class = NoValue
    /\ stub_lines = NoValue
    /\ NoModuleRun

GetTypeinfo ==
    /\ pc = "call"
    /\ type_result' = get_typeinfo(type_info)
    /\ current_gi_imports' = current_gi_imports \cup type_result'.imps
    /\ pc' = "done"
    /\ UNCHANGED <<current_stub_module, type_info, function, strip_bool_result,
                   signature, fn_result, clsvars, modvars>>

NextType == GetTypeinfo

SpecType == InitType /\ [][NextType]_vars

\* ------------------------------------------------------------------ SpecPar
\* two calls of generate_module_stub, for Gdk and for Gtk, run as two
\* threads of one process and are interleaved between loop iterations

Units == {1, 2}

\* the dicts over some of names, each name with any of its values in menu
DictsOver(menu, names) ==
    UNION {{[n \in N |-> menu[n][c[n]]] :
               c \in {c \in [N -> 1..2] : \A n \in N : c[n] <= Len(menu[n])}} :
           N \in SUBSET names}

ParGdkModules ==
    {Module("gi.repository.Gdk", ModName("gi.module", ""), TRUE, d) :
        d \in DictsOver(GdkMenu, {"Widget", "double"})}

ParGtkModules ==
    {Module("gi.repository.Gtk", ModName("gi.overrides", ""), TRUE, d) :
        d \in DictsOver(GtkMenu, {"Flags", "double", "f"})}

InitPar ==
    /\ current_stub_module = NoModule
    /\ current_gi_imports = {}
    /\ pc = [t \in Units |-> "start"]
    /\ module_dict \in {<<m1, m2>> : m1 \in ParGdkModules, m2 \in ParGtkModules}
    /\ main_i = 0
    /\ module_attrs = [t \in Units |-> <<>>]
    /\ attr_stubs = [t \in Units |-> <<>>]
    /\ stub = [t \in Units |-> NoValue]
    /\ files = {}
    /\ referenced = [t \in Units |-> {}]
    /\ function = NoValue
    /\ strip_bool_result = FALSE
    /\ signature = NoValue
    /\ fn_result = NoValue
    /\ NoTypeRun
    /\ stub_class = NoValue
    /\ stub_lines = NoValue

\* lines 572-606 in call t: the globals are assigned, the names sorted
ParCall(t) ==
    /\ pc[t] = "start"
    /\ current_stub_module' = fresh_context(module_dict[t]).module
    /\ current_gi_imports' = fresh_context(module_dict[t]).imports
    /\ module_attrs' =
           [module_attrs EXCEPT ![t] = sorted(DOMAIN module_dict[t].dict)]
    /\ pc' = [pc EXCEPT ![t] = "loop"]
    /\ UNCHANGED <<module_dict, main_i, attr_stubs, stub, files, referenced,
                   sigvars, clsvars>>

\* what one iteration of call t leaves, given its outcome out
ParLoopStep(t, out) ==
    /\ current_gi_imports' = current_gi_imports \cup out.imps
    /\ referenced' = [referenced EXCEPT ![t] = @ \cup out.imps]
    /\ IF out.raised
       THEN /\ pc' = [pc EXCEPT ![t] = "crashed"]
            /\ UNCHANGED <<module_attrs, attr_stubs>>
       ELSE /\ pc' = pc
            /\ attr_stubs' = [attr_stubs EXCEPT ![t] = out.val]
            /\ module_attrs' = [module_attrs EXCEPT ![t] = Tail(@)]

\* lines 608-631 in call t: one iteration, with the globals as they are
ParModuleAttr(t) ==
    /\ pc[t] = "loop"
    /\ module_attrs[t] # <<>>
    /\ ParLoopStep(t, module_step(module_dict[t], Head(module_attrs[t]),
                                  Ok(attr_stubs[t], {})))
    /\ UNCHANGED <<current_stub_module, module_dict, main_i, stub, files,
                   sigvars, clsvars>>

\* lines 633-636 in call t: the text, with the imports as they are
ParReturn(t) ==
    /\ pc[t] = "loop"
    /\ module_attrs[t] = <<>>
    /\ stub' = [stub EXCEPT
                   ![t] = stub_str(current_gi_imports, attr_stubs[t])]
    /\ pc' = [pc EXCEPT ![t] = "returned"]
    /\ UNCHANGED <<current_stub_module, current_gi_imports, module_dict,
                   main_i, module_attrs, attr_stubs, files, referenced,
                   sigvars, clsvars>>

NextPar ==
    \/ \E t \in Units : ParCall(t)
    \/ \E t \in Units : ParModuleAttr(t)
    \/ \E t \in Units : ParReturn(t)

SpecPar == InitPar /\ [][NextPar]_vars

\* ------------------------------------------------------------------ claims
\* about signature synthesis (SpecSig)

\* the return collection of the callable in `function`: the resolved
\* declared return type, then the resolved types of its OUT arguments, in
\* declaration order; with stripping enabled, without its leading entry
DeclaredCollection ==
    <<get_typeinfo(function.ret).val>>
    \o [i \in 1..Cardinality({j \in 1..Len(function.args) :
                                 function.args[j].direction = "OUT"}) |->
           LET j == CHOOSE j \in 1..Len(function.args) :
                       /\ function.args[j].direction = "OUT"
                       /\ Cardinality({x \in 1..j :
                              function.args[x].direction = "OUT"}) = i
           IN  get_typeinfo(function.args[j].type).val]

ReturnCollection ==
    IF strip_bool_result THEN Tail(DeclaredCollection)
    ELSE DeclaredCollection

\* the entries of the return collection that are not none
Surviving == SelectSeq(ReturnCollection, LAMBDA r : r # PyNone)

Synthesized ==
    /\ pc = "done"
    /\ function.kind \in CallableInfo
    /\ ~signature.raised

\* the pieces of a token sequence between the separator tokens sep
RECURSIVE SplitBy(_, _)
SplitBy(toks, sep) ==
    IF \A i \in 1..Len(toks) : toks[i] # sep THEN <<toks>>
    ELSE LET k == CHOOSE i \in 1..Len(toks) :
                     toks[i] = sep /\ \A j \in 1..(i - 1) : toks[j] # sep
         IN  <<SubSeq(toks, 1, k - 1)>>
             \o SplitBy(SubSeq(toks, k + 1, Len(toks)), sep)

\* C1: after the none entries are dropped from the return collection, one
\* remaining entry is the return annotation itself (no tuple around it),
\* and no remaining entry makes the return annotation None.
C1_SingleOrNone ==
    Synthesized =>
        LET ra == signature.val.signature.return_annotation
        IN  /\ Len(Surviving) = 1 => ra = Surviving[1]
            /\ Len(Surviving) = 0 => ra = PyNone

\* C2: with N >= 2 entries of the return collection that are not none, the
\* return annotation is typing.Tuple[...] of exactly those N types in
\* declaration order, and none of its elements is None.
C2_TupleInOrder ==
    (Synthesized /\ Len(Surviving) >= 2) =>
        LET ra == signature.val.signature.return_annotation
            n == Len(ra.t)
        IN  /\ ra.k = "str"
            /\ n >= 5
            /\ SubSeq(ra.t, 1, 4) = <<"typing", ".", "Tuple", "[">>
            /\ ra.t[n] = "]"
            /\ SplitBy(SubSeq(ra.t, 5, n - 1), ", ")
                   = [i \in 1..Len(Surviving) |->
                         IF Surviving[i].k = "type"
                         THEN <<Surviving[i].t[1]>> ELSE Surviving[i].t]
            /\ \A i \in 5..(n - 1) : ra.t[i] # "None"

\* a callable with a void return and two OUT arguments was synthesized
C2_Witness ==
    /\ Synthesized
    /\ Len(Surviving) = 2
    /\ Len(ReturnCollection) = 3
    /\ ReturnCollection[1] = PyNone
    /\ Surviving[1] # Surviving[2]

\* C3: with stripping enabled, format_functioninfo raises (a ValueError
\* naming the attribute) exactly when the first entry of the return
\* collection is not bool or nothing is left after the leading bool is
\* removed; a returned signature never lost an entry other than bool.
C3_StripFailsLoudly ==
    (pc = "done" /\ strip_bool_result /\ function.kind \in CallableInfo) =>
        /\ fn_result.raised <=>
               \/ DeclaredCollection[1] # py_bool
               \/ Len(DeclaredCollection) = 1
        /\ fn_result.raised => fn_result.val.t[1] = "ValueError"
        /\ ~fn_result.raised => DeclaredCollection[1] = py_bool

\* stripping was asked of a callable that returns int and has an OUT
\* argument, and format_functioninfo raised
C3_Witness ==
    /\ pc = "done"
    /\ strip_bool_result
    /\ function.kind \in CallableInfo
    /\ DeclaredCollection[1] = py_int
    /\ Len(DeclaredCollection) = 2
    /\ fn_result.raised

\* ------------------------------------------------------------------ claims
\* about generate_class_stubs (SpecClass)

\* the names of stub_class that attr_generator yields
Surviving_names ==
    {n \in DOMAIN stub_class.dict :
        /\ ~startswith(n, <<"_", "_">>)
        /\ n \notin {"new", "priv", "widget"}
        /\ isidentifier(n)
        /\ stub_class.dict[n].kind # "AttributeError"}

\* the returned lines hold a typed assignment / a def for the name n
FieldLine(n) ==
    \E i \in 1..Len(stub_lines.val) :
        /\ Len(stub_lines.val[i]) >= 4
        /\ SubSeq(stub_lines.val[i], 1, 3) = <<"    ", n, " = ...  # type: ">>

TypedLine(n, type_str) ==
    \E i \in 1..Len(stub_lines.val) :
        stub_lines.val[i] = <<"    ", n, " = ...  # type: ">> \o type_str

DefLine(n) ==
    \E i \in 1..Len(stub_lines.val) :
        /\ Len(stub_lines.val[i]) >= 3
        /\ SubSeq(stub_lines.val[i], 1, 3) = <<"    ", "def ", n>>

StructDone ==
    /\ pc = "done"
    /\ stub_class # NoValue
    /\ stub_class.info_kind \in {"StructInfo", "UnionInfo"}

OverrideDefined ==
    {n \in Surviving_names :
        /\ n \notin DOMAIN stub_class.fields \cup DOMAIN stub_class.methods
        /\ stub_class.dict[n].kind \in {"property", "FunctionType", "int"}}

\* C9: generate_class_stubs on a struct with override-defined attributes
\* returns a stub in which each of them is declared: a property typed
\* typing.Any, an int constant typed int, a function as a def.
C9_OverrideAttributesDeclared ==
    (StructDone /\ stub_class.module.pre = "gi.overrides") =>
        /\ ~stub_lines.raised
        /\ \A n \in OverrideDefined :
               CASE stub_class.dict[n].kind = "property" ->
                        TypedLine(n, <<"typing", ".", "Any">>)
                 [] stub_class.dict[n].kind = "int" -> TypedLine(n, <<"int">>)
                 [] OTHER -> DefLine(n)

EnumDone ==
    /\ pc = "done"
    /\ stub_class # NoValue
    /\ stub_class.info_kind = "EnumInfo"
    /\ ~stub_lines.raised

\* C10: in an enum or flags class a surviving attribute that is no
\* callable is a constant line exactly when it is named LEVEL_MASK, or its
\* name is uppercase and its value is one of the declared member values;
\* the constant is typed by the value's type.
C10_EnumMembers ==
    EnumDone =>
        \A n \in Surviving_names :
            LET attr == stub_class.dict[n]
            IN  attr.kind \in ValueKinds =>
                    /\ FieldLine(n) <=>
                           \/ n = "LEVEL_MASK"
                           \/ /\ \A i \in 1..Len(Chars[n]) :
                                     ~IsLowerChar(Chars[n][i])
                              /\ attr.isnum
                              /\ attr.num \in stub_class.values
                    /\ FieldLine(n) => TypedLine(n, <<attr.tname>>)
                    /\ ~DefLine(n)

\* an enum with the uppercase attribute A whose value 3 is no declared
\* member, and LEVEL_MASK, was generated: A is left out, LEVEL_MASK is not
C10_Witness ==
    /\ EnumDone
    /\ {"A", "LEVEL_MASK"} \subseteq Surviving_names
    /\ stub_class.dict["A"].num = 3
    /\ ~FieldLine("A")
    /\ FieldLine("LEVEL_MASK")

\* ------------------------------------------------------------------ claims
\* of Spec: main over the modules Gdk and Gtk

\* the names a text declares: after def and class, before a typed assignment
DeclaredNames(text) ==
    {text[i + 1] : i \in {j \in 1..(Len(text) - 1) :
                             text[j] \in {"def ", "class "}}}
    \cup {text[i - 1] : i \in {j \in 2..Len(text) :
                                  text[j] = " = ...  # type: "}}

\* the module names of the import lines of a text
ImportLines(text) ==
    {text[i + 1] : i \in {j \in 1..(Len(text) - 1) : text[j] = "import "}}

\* the names that qualify a reference in a text: what stands before a dot
Qualifiers(text) ==
    {text[i - 1] : i \in {j \in 2..Len(text) : text[j] = "."}}

IgnoredName(n) ==
    \/ n \in {"new", "priv", "widget"}
    \/ Len(Chars[n]) >= 2 /\ Chars[n][1] = "_" /\ Chars[n][2] = "_"

\* every text of the run: the lines gathered, the returned text, the files
EmittedTexts ==
    {Join(attr_stubs, <<"\n">>)}
    \cup (IF stub = NoValue THEN {} ELSE {stub})
    \cup {f.text : f \in files}

\* C4: no text generated at any point of any run, whether for a module, an
\* object, a class without info, a struct, a union or an enum, declares a
\* name of the ignore list or a name that starts with two underscores.
C4_IgnoredNeverDeclared ==
    \A text \in EmittedTexts : \A n \in DeclaredNames(text) : ~IgnoredName(n)

\* Gtk's file is written: Gtk has the function `new` and the class Widget
\* whose dict has `new` and `__init__` next to the method `double`
C4_Witness ==
    /\ {"new", "Widget"} \subseteq DOMAIN module_dict[2].dict
    /\ {"new", "__init__", "double"}
           \subseteq DOMAIN module_dict[2].dict["Widget"].cls.dict
    /\ \E f \in files :
           /\ f.name = "gi.repository.Gtk"
           /\ {"Widget", "double"} \subseteq DeclaredNames(f.text)

\* C5: in the text generate_module_stub returns, every module name that
\* qualifies a reference has an import line, and the current module's own
\* name qualifies nothing.
C5_QualifiersImported ==
    stub # NoValue =>
        /\ Qualifiers(stub) \subseteq ImportLines(stub)
        /\ current_stub_module \notin Qualifiers(stub)

\* the attributes of x (a module or a class) that reach a stubber
Visited(x) ==
    {n \in DOMAIN x.dict :
        /\ ~IgnoredName(n)
        /\ isidentifier(n)
        /\ x.dict[n].kind # "AttributeError"}

\* a wrapped override function whose boolean is to be stripped, and whose
\* returns do not start with a boolean or hold nothing else
StripFailure(attr) ==
    /\ attr.kind = "FunctionType"
    /\ attr.wrapped # NoInfo
    /\ attr.bool_override
    /\ \/ attr.wrapped.ret.tag # "BOOLEAN"
       \/ \A i \in 1..Len(attr.wrapped.args) :
              attr.wrapped.args[i].direction # "OUT"

FatalClass(c) ==
    \/ c.info_kind \notin {"none", "ObjectInfo", "InterfaceInfo", "StructInfo",
                           "UnionInfo", "EnumInfo"}
    \/ /\ c.info_kind \in {"StructInfo", "UnionInfo"}
       /\ \E n \in Visited(c) : n \notin DOMAIN c.fields \cup DOMAIN c.methods
    \/ /\ c.info_kind \in {"none", "ObjectInfo", "InterfaceInfo"}
       /\ \E n \in Visited(c) : StripFailure(c.dict[n])

HasSuffix(n, suffix) ==
    /\ Len(Chars[n]) >= Len(suffix)
    /\ \A i \in 1..Len(suffix) :
           Chars[n][Len(Chars[n]) - Len(suffix) + i] = suffix[i]

\* a class the loop of generate_module_stub passes over
SkippedClass(n, c) ==
    \/ HasSuffix(n, <<"C", "l", "a", "s", "s">>)
    \/ HasSuffix(n, <<"P", "r", "i", "v", "a", "t", "e">>)
    \/ c.module = ModName("gi._glib", "")

\* the module has, among what is visited, a struct attribute in neither
\* map, a boolean stripping that fails or a class of no dispatched kind
FatalModule(m) ==
    \E n \in Visited(m) :
        IF m.dict[n].kind = "class"
        THEN ~SkippedClass(n, m.dict[n].cls) /\ FatalClass(m.dict[n].cls)
        ELSE StripFailure(m.dict[n])

FileOf(m) == {f \in files : f.name = m.name}

\* C6: the import lines of the text returned for the k-th module are
\* typing and the modules that format_module qualified a reference with
\* during the k-th run, each of them a qualifier of that text; and from
\* the start of the k-th run to its end the current module is the k-th.
C6_NoLeakBetweenRuns ==
    /\ pc \in {"check", "loop", "write", "crashed"} =>
           current_stub_module = module_dict[main_i].name
    /\ stub # NoValue =>
           /\ ImportLines(stub) = {"typing"} \cup referenced
           /\ ImportLines(stub) \subseteq {"typing"} \cup Qualifiers(stub)

\* the text for Gtk, the second module, is returned with typing and Gdk
\* as its imports, after Gdk's file was written with an import of GObject
C6_Witness ==
    /\ pc = "write"
    /\ main_i = 2
    /\ ImportLines(stub) = {"typing", "gi.repository.Gdk"}
    /\ \E f \in files :
           /\ f.name = "gi.repository.Gdk"
           /\ "gi.repository.GObject" \in ImportLines(f.text)

\* C7: a module with a fatal condition in what is visited gets no stub
\* text and no file, and a run that raised returned no text: what was
\* gathered before the raise is written nowhere.
C7_NoPartialStub ==
    /\ pc = "crashed" =>
           stub = NoValue /\ FileOf(module_dict[main_i]) = {}
    /\ \A i \in 1..Len(module_dict) :
           FatalModule(module_dict[i]) =>
               /\ FileOf(module_dict[i]) = {}
               /\ main_i = i => stub = NoValue /\ pc # "write"

\* Gtk's run raised at a boolean stripping after the lines of the class
\* Flags were gathered; Gdk's file was written before
C7_Witness ==
    /\ pc = "crashed"
    /\ main_i = 2
    /\ FatalModule(module_dict[2])
    /\ "Flags" \in DeclaredNames(Join(attr_stubs, <<"\n">>))
    /\ FileOf(module_dict[1]) # {}
    /\ FileOf(module_dict[2]) = {}

\* ------------------------------------------------------------------ claims
\* of SpecClass: the layout of the returned lines

ClassDone ==
    /\ pc = "done"
    /\ stub_class # NoValue
    /\ ~stub_lines.raised

\* the lines between the class line and the placeholder
BodyLines ==
    SubSeq(stub_lines.val, 3, Len(stub_lines.val) - 1)

\* the name a body line declares, "" for a decorator line
LineName(line) ==
    IF Len(line) >= 3 /\ line[2] = "def " THEN line[3]
    ELSE IF Len(line) >= 3 /\ line[3] = " = ...  # type: " THEN line[2]
    ELSE ""

DeclarationLines ==
    SelectSeq(BodyLines, LAMBDA line : LineName(line) # "")

\* what the class line must be for the classes generated here: their parent,
\* when there is one, is GObject.Object, which is in another module
ExpectedClassLine ==
    IF stub_class.parent = NoInfo
    THEN <<"class ", stub_class.name, ":">>
    ELSE <<"class ", stub_class.name, "(", "gi.repository.GObject", ".",
           "GObject", "):">>

\* the class of the example: a field value, a method double, no parent
IsExampleClass ==
    /\ stub_class.info_kind \in {"ObjectInfo", "InterfaceInfo"}
    /\ stub_class.parent = NoInfo
    /\ DOMAIN stub_class.dict = {"value", "double"}
    /\ stub_class.dict["double"] = Method(Basic("INT32"))

\* C11: the lines generate_class_stubs returns are an empty line, the class
\* line (with the parent when there is one), body lines that are each
\* indented by four spaces and declare surviving names in strictly ascending
\* order, and the indented placeholder as the last line; the class with the
\* field value and the method double gives exactly def double, value, '...'.
C11_ClassLayout ==
    ClassDone =>
        /\ Len(stub_lines.val) >= 3
        /\ stub_lines.val[1] = <<>>
        /\ stub_lines.val[2] = ExpectedClassLine
        /\ stub_lines.val[Len(stub_lines.val)] = <<"    ", "...">>
        /\ \A i \in 1..Len(BodyLines) :
               /\ BodyLines[i] # <<>>
               /\ BodyLines[i][1] = "    "
               /\ BodyLines[i] # <<"    ", "...">>
        /\ \A i \in 1..Len(DeclarationLines) :
               LineName(DeclarationLines[i]) \in Surviving_names
        /\ \A i \in 1..(Len(DeclarationLines) - 1) :
               CharsLess(Chars[LineName(DeclarationLines[i])],
                         Chars[LineName(DeclarationLines[i + 1])])
        /\ IsExampleClass =>
               stub_lines.val =
                   <<<<>>,
                     <<"class ", "Widget", ":">>,
                     <<"    ", "def ", "double", "(", "self", ")", " -> ",
                       "int", ": ...">>,
                     <<"    ", "value", " = ...  # type: ", "int">>,
                     <<"    ", "...">>>>

\* the example class was generated
C11_Witness ==
    /\ ClassDone
    /\ IsExampleClass
    /\ Len(BodyLines) = 2

\* ------------------------------------------------------------------ claims
\* of SpecPar: two interleaved calls

\* C12: when two calls are interleaved, the text returned for module M has
\* as import lines only typing and the modules referenced while generating
\* M, and no reference in it is qualified with M's own name: each
\* qualification for M compared against M's name.
C12_UnitsIsolated ==
    \A t \in Units :
        stub[t] # NoValue =>
            /\ ImportLines(stub[t]) \subseteq {"typing"} \cup referenced[t]
            /\ module_dict[t].name \notin Qualifiers(stub[t])

\* ------------------------------------------------------------------ claims
\* of SpecSig: the directions of the arguments

\* the arguments of `function` whose direction is in dirs, in order
ArgsWith(dirs) ==
    SelectSeq(function.args, LAMBDA a : a.direction \in dirs)

\* the return collection as stated: the resolved return type, then the
\* resolved types of the OUT and INOUT arguments in declaration order
StatedCollection ==
    <<get_typeinfo(function.ret).val>>
    \o [i \in 1..Len(ArgsWith({"OUT", "INOUT"})) |->
           get_typeinfo(ArgsWith({"OUT", "INOUT"})[i].type).val]

\* C13: the parameters are self (when needed) and then the IN and INOUT
\* arguments in declaration order, and the return annotation is the one
\* made of the return type followed by the types of the OUT and INOUT
\* arguments in declaration order.
C13_DirectionsSplit ==
    (Synthesized /\ ~strip_bool_result) =>
        LET sig == signature.val.signature
        IN  /\ [i \in 1..Len(sig.parameters) |-> sig.parameters[i].name]
                   = (IF needs_self(function) THEN <<"self">> ELSE <<>>)
                     \o [i \in 1..Len(ArgsWith({"IN", "INOUT"})) |->
                            ArgsWith({"IN", "INOUT"})[i].name]
            /\ sig.return_annotation = composite_return(StatedCollection)

\* ------------------------------------------------------------------ claims
\* of SpecType: type resolution

TypeDone == pc = "done" /\ type_info # NoValue

\* C14: get_typeinfo raises for no type; a tag that is no member of
\* GTypeTag and a void pointer resolve to typing.Any, and a recognized tag
\* without interface or parameter type resolves to what the mapping gives.
C14_ResolutionTotal ==
    TypeDone =>
        /\ ~type_result.raised
        /\ type_info.tag \notin GTypeTag => type_result.val = typing_Any
        /\ (type_info.tag = "VOID" /\ type_info.is_pointer) =>
               type_result.val = typing_Any
        /\ (/\ type_info.tag \in GTypeTag \ (ContainerTags \cup {"INTERFACE"})
            /\ ~(type_info.tag = "VOID" /\ type_info.is_pointer)) =>
               type_result.val = as_pytype(type_info.tag)

\* the element of the container type in type_info, resolved; typing.Any
\* when it cannot be resolved (a raise, or nothing)
ElementStr ==
    IF get_typeinfo(type_info.param).raised THEN typing_Any.t
    ELSE IF get_typeinfo(type_info.param).val = PyNone THEN typing_Any.t
    ELSE Str(format_pytype(get_typeinfo(type_info.param).val))

\* C15: an array, a GList, a GSList and a GHash resolve to a container
\* annotation typing.X[element] with exactly the one resolved element
\* type, and with typing.Any as the element when that cannot be resolved.
C15_ContainerElement ==
    (TypeDone /\ type_info.tag \in ContainerTags) =>
        /\ ~type_result.raised
        /\ type_result.val.k = "str"
        /\ \E X \in {"List", "Dict"} :
               type_result.val.t = <<"typing", ".", X, "[">> \o ElementStr \o <<"]">>

\* ------------------------------------------------------------------ claims
\* of SpecClass: the classification of attributes

ObjectDone ==
    /\ ClassDone
    /\ stub_class.info_kind \in {"none", "ObjectInfo", "InterfaceInfo"}

Overridden == stub_class.module.pre = "gi.overrides"

\* the body lines that declare the name n
LinesDeclaring(n) ==
    SelectSeq(BodyLines, LAMBDA line : LineName(line) = n)

\* the def line of the name n with the signature of the callable fn
DefLineOf(n, fn, strip) ==
    <<"    ", "def ", n>> \o SignatureStr(make_signature(fn, strip).val.signature)
    \o <<": ...">>

\* the one line the first matching rule gives for the attribute n, or none
ExpectedLines(n) ==
    LET attr == stub_class.dict[n]
    IN  CASE attr.kind = "FunctionType" /\ attr.wrapped # NoInfo ->
                 <<DefLineOf(n, attr.wrapped, attr.bool_override)>>
          [] attr.kind \in {"FunctionInfo", "VFuncInfo"} ->
                 <<DefLineOf(n, attr, FALSE)>>
          [] attr.kind = "FunctionType" /\ attr.wrapped = NoInfo
             /\ Overridden ->
                 <<DefLineOf(n, attr, FALSE)>>
          [] attr.kind \notin {"FunctionInfo", "VFuncInfo"}
             /\ ~(attr.kind = "FunctionType" /\ (attr.wrapped # NoInfo
                                                 \/ Overridden))
             /\ n \in DOMAIN stub_class.fields ->
                 <<<<"    ", n, " = ...  # type: ">>
                   \o Str(as_pytype(stub_class.fields[n].tag))>>
          [] attr.kind = "property" /\ Overridden
             /\ n \notin DOMAIN stub_class.fields ->
                 <<<<"    ", n, " = ...  # type: ", "typing", ".", "Any">>>>
          [] attr.kind \in ValueKinds /\ n \notin DOMAIN stub_class.fields ->
                 <<<<"    ", n, " = ...  # type: ", attr.tname>>>>
          [] OTHER -> <<>>

\* C16: in an object class, an interface or a class without info, every
\* surviving attribute is declared by the first rule it matches, in the
\* order wrapped callable, introspected callable, plain callable of an
\* override, field, property of an override, constant, and by that rule
\* only; an attribute that matches none is not declared, and the
\* attributes after it are.
C16_PriorityList ==
    ObjectDone =>
        \A n \in Surviving_names : LinesDeclaring(n) = ExpectedLines(n)

\* an override class was generated whose plain function from_floats and
\* property value are fields too, after the attribute area that matches
\* no rule: area is not declared, from_floats is a def, value a field line
C16_Witness ==
    /\ ObjectDone
    /\ Overridden
    /\ stub_class.info_kind = "ObjectInfo"
    /\ {"area", "from_floats", "value"} \subseteq Surviving_names
    /\ LinesDeclaring("area") = <<>>
    /\ stub_class.dict["from_floats"] = from_floats
    /\ stub_class.dict["value"].kind = "property"
    /\ DefLine("from_floats")
    /\ TypedLine("value", <<"int">>)

====
